---- MODULE Spec2Model ----
(***************************************************************************)
(* Model of docs/howtos/integrations/openlayer.ipynb: a notebook run from  *)
(* its first cell to its last.  Every call into an external SDK is split   *)
(* into its start and its return (or its failure), so that calls in flight *)
(* and the order of the calls are part of the state.                       *)
(***************************************************************************)
EXTENDS Integers, Sequences, FiniteSets, TLC

VARIABLES pc, status, inflight, started, returned, failedAt, served,
          env, defined, documents, test_df, query_engine, test_questions,
          issued, responses, ragas_dataset, ragas_df, client, project

vars == <<pc, status, inflight, started, returned, failedAt, served,
          env, defined, documents, test_df, query_engine, test_questions,
          issued, responses, ragas_dataset, ragas_df, client, project>>

(* ---------------- bounds and value universes of the external world ------ *)

MaxRows == 2

Questions == {"q1", "q2"}

GroundTruths == {"g1", "g2"}

Answers == {"a1", "a2"}

RankedNodes == <<"n1", "n2", "n3">>

InitialEnv == {"unset", "preset"}

(* ---------------- literals of the notebook ------------------------------ *)

OpenAIKey == "YOUR_OPENAI_API_KEY_HERE"

OpenlayerKey == "YOUR_OPENLAYER_API_KEY_HERE"

DemoQuestion == "What are some strategies proposed ...?"

NumFilesLimit == 2

ChunkSize == 512

SimilarityTopK == 2

(* variant: the config names the ground-truth column in the plural          *)
ValidationDatasetConfigPlural ==
    [contextColumnName     |-> "contexts",
     questionColumnName    |-> "question",
     inputVariableNames    |-> <<"question">>,
     label                 |-> "validation",
     outputColumnName      |-> "answer",
     groundTruthColumnName |-> "ground_truths"]

ValidationDatasetConfig ==
    [contextColumnName     |-> "contexts",
     questionColumnName    |-> "question",
     inputVariableNames    |-> <<"question">>,
     label                 |-> "validation",
     outputColumnName      |-> "answer",
     groundTruthColumnName |-> "ground_truth"]

ModelConfig ==
    [inputVariableNames |-> <<"question">>,
     modelType          |-> "shell",
     metadata           |-> [top_k |-> 2, chunk_size |-> 512, embeddings |-> "OpenAI"]]

(* variant: the query engine is built before the documents are loaded      *)
ScriptBuildFirst ==
    <<"git_clone", "set_env", "from_documents", "load_data", "with_openai",
      "generate_testset", "test_to_pandas", "demo_query", "gen_enter", "gen_loop",
      "to_pandas", "OpenlayerClient", "create_project", "add_dataframe",
      "add_model", "commit", "push">>

(* variant: the key is put into the environment after the testset cell      *)
ScriptKeyLate ==
    <<"git_clone", "load_data", "with_openai", "generate_testset",
      "test_to_pandas", "set_env", "from_documents", "demo_query", "gen_enter",
      "gen_loop", "to_pandas", "OpenlayerClient", "create_project",
      "add_dataframe", "add_model", "commit", "push">>

(* variant: the commit is made before the model is added                    *)
ScriptCommitEarly ==
    <<"git_clone", "set_env", "load_data", "with_openai", "generate_testset",
      "test_to_pandas", "from_documents", "demo_query", "gen_enter", "gen_loop",
      "to_pandas", "OpenlayerClient", "create_project", "add_dataframe",
      "commit", "add_model", "push">>

(* The cells of the notebook, top to bottom, one entry per statement that   *)
(* calls out or binds a name the later cells use.                           *)
Script ==
    <<"git_clone", "set_env", "load_data", "with_openai", "generate_testset",
      "test_to_pandas", "from_documents", "demo_query", "gen_enter", "gen_loop",
      "to_pandas", "OpenlayerClient", "create_project", "add_dataframe",
      "add_model", "commit", "push">>

(* ---------------- pure helpers ------------------------------------------ *)

Min(a, b) == IF a <= b THEN a ELSE b

At(s) == status = "running" /\ pc <= Len(Script) /\ Script[pc] = s

(* variant: calls are fired without waiting for the previous one            *)
BlockedNever(calls) == FALSE

(* A synchronous Python call blocks the interpreter until it returns.       *)
Blocked(calls) == calls # {}

Call(name, arg) == [id |-> Len(started) + 1, name |-> name, arg |-> arg]

Names(log) == {log[i].name : i \in 1..Len(log)}

(* df[col].values : the column of a row-oriented frame                      *)
Column(df, col) == [i \in 1..Len(df.rows) |-> df.rows[i][col]]

(* node.get_content()                                                       *)
GetContent(n) == CASE n = "n1" -> "c1" [] n = "n2" -> "c2" [] OTHER -> "c3"

(* what a retriever built with similarity_top_k = k may hand back from a    *)
(* non-empty index: the best m nodes, m at most k                           *)
Retrievals(k) == {SubSeq(RankedNodes, 1, m) : m \in 1..Min(k, Len(RankedNodes))}

(* generate_single_response: the dict made of a query response              *)
generate_single_response(response) ==
    [answer   |-> response.response,
     contexts |-> [i \in 1..Len(response.source_nodes) |->
                      GetContent(response.source_nodes[i])]]

(* variant: the engine retrieves three nodes per query                      *)
build_query_engine_top3(docs) ==
    [documents |-> docs, chunk_size |-> ChunkSize,
     embed_model |-> "OpenAI", similarity_top_k |-> 3]

(* build_query_engine: what the returned engine was built with              *)
build_query_engine(docs) ==
    [documents |-> docs, chunk_size |-> ChunkSize,
     embed_model |-> "OpenAI", similarity_top_k |-> SimilarityTopK]

(* variant: the answers are taken from the responses back to front         *)
dataset_dict_reversed(tq, rs, df) ==
    [question     |-> tq,
     answer       |-> [i \in 1..Len(rs) |-> rs[Len(rs) + 1 - i].answer],
     contexts     |-> [i \in 1..Len(rs) |-> rs[i].contexts],
     ground_truth |-> Column(df, "ground_truth")]

(* dataset_dict of generate_ragas_dataset, as Dataset.from_dict keeps it    *)
dataset_dict(tq, rs, df) ==
    [question     |-> tq,
     answer       |-> [i \in 1..Len(rs) |-> rs[i].answer],
     contexts     |-> [i \in 1..Len(rs) |-> rs[i].contexts],
     ground_truth |-> Column(df, "ground_truth")]

(* Dataset.to_pandas: columns to rows                                       *)
ToPandas(ds) ==
    [columns |-> DOMAIN ds,
     rows    |-> [i \in 1..Len(ds[CHOOSE c \in DOMAIN ds : TRUE]) |->
                     [c \in DOMAIN ds |-> ds[c][i]]]]

(* testset.to_pandas(): the generated samples as a frame                    *)
TestsetToPandas(samples) ==
    [columns |-> {"question", "ground_truth"}, rows |-> samples]

EmptyFrame == [columns |-> {}, rows |-> <<>>]

RECURSIVE Testsets(_)
Testsets(n) ==
    IF n = 0 THEN {<<>>}
    ELSE LET shorter == Testsets(n - 1)
         IN shorter \cup
            {Append(t, [question |-> q, ground_truth |-> g]) :
                t \in {s \in shorter : Len(s) = n - 1},
                q \in Questions, g \in GroundTruths}

(* ---------------- initial state ----------------------------------------- *)

Init ==
    /\ pc = 1
    /\ status = "running"
    /\ inflight = {}
    /\ started = <<>>
    /\ returned = <<>>
    /\ failedAt = <<>>
    /\ served = <<>>
    /\ env \in InitialEnv
    /\ defined = {}
    /\ documents = <<>>
    /\ test_df = EmptyFrame
    /\ query_engine = [documents |-> <<>>, chunk_size |-> 0,
                       embed_model |-> "", similarity_top_k |-> 0]
    /\ test_questions = <<>>
    /\ issued = 0
    /\ responses = <<>>
    /\ ragas_dataset = [question |-> <<>>, answer |-> <<>>,
                        contexts |-> <<>>, ground_truth |-> <<>>]
    /\ ragas_df = EmptyFrame
    /\ client = [api_key |-> ""]
    /\ project = [created |-> FALSE, datasets |-> <<>>, models |-> <<>>,
                  commits |-> <<>>, pushes |-> 0]

(* ---------------- the interpreter --------------------------------------- *)

(* names bound by cells, external-service state, and the loop's locals      *)
bound == <<env, defined, documents, test_df, query_engine, ragas_dataset,
           ragas_df, client, project>>

locals == <<test_questions, issued, responses>>

logs == <<started, returned, failedAt, served>>

(* the statement is over: the next one is up, or the last cell has run      *)
Advance ==
    /\ pc' = pc + 1
    /\ status' = IF pc = Len(Script) THEN "done" ELSE "running"

(* a local statement (no call out) of the cell at pc                        *)
Local(s) == At(s) /\ ~Blocked(inflight) /\ Advance
            /\ UNCHANGED <<inflight, logs>>

(* the call c in flight returns normally and the statement completes        *)
Return(s, c) ==
    /\ At(s)
    /\ c \in inflight
    /\ inflight' = inflight \ {c}
    /\ returned' = Append(returned, c)
    /\ UNCHANGED <<started, failedAt>>

SimpleCalls ==
    {"git_clone", "load_data", "with_openai", "generate_testset",
     "from_documents", "demo_query", "OpenlayerClient", "create_project",
     "add_dataframe", "add_model", "commit", "push"}

CallName(s) == IF s = "demo_query" THEN "query" ELSE s

CallArg(s) == IF s = "demo_query" THEN DemoQuestion ELSE ""

(* the statement at pc calls out; control stays in the call                 *)
BeginCall ==
    \E s \in SimpleCalls :
        /\ At(s)
        /\ ~Blocked(inflight)
        /\ inflight' = inflight \cup {Call(CallName(s), CallArg(s))}
        /\ started' = Append(started, Call(CallName(s), CallArg(s)))
        /\ UNCHANGED <<pc, status, returned, failedAt, served, bound, locals>>

(* variant: the exception is caught and the run goes on with the next step  *)
FailContinues ==
    \E c \in inflight :
        /\ status = "running"
        /\ Advance
        /\ failedAt' = <<c>>
        /\ inflight' = {}
        /\ UNCHANGED <<started, returned, served, bound, locals>>

(* variant: a failing query ends the loop and the rows so far are returned  *)
FailKeepsPartial ==
    \E c \in inflight :
        /\ status = "running"
        /\ failedAt' = <<c>>
        /\ inflight' = {}
        /\ IF At("gen_loop")
           THEN /\ Advance
                /\ ragas_dataset' =
                      [question     |-> SubSeq(test_questions, 1, Len(responses)),
                       answer       |-> [i \in 1..Len(responses) |-> responses[i].answer],
                       contexts     |-> [i \in 1..Len(responses) |-> responses[i].contexts],
                       ground_truth |-> SubSeq(Column(test_df, "ground_truth"),
                                               1, Len(responses))]
                /\ defined' = defined \cup {"ragas_dataset"}
           ELSE /\ status' = "failed"
                /\ UNCHANGED <<pc, ragas_dataset, defined>>
        /\ UNCHANGED <<started, returned, served, env, documents, test_df,
                       query_engine, ragas_df, client, project, locals>>

(* any call in flight may raise; nothing catches it, the run stops          *)
Fail ==
    \E c \in inflight :
        /\ status = "running"
        /\ status' = "failed"
        /\ failedAt' = <<c>>
        /\ inflight' = {}
        /\ UNCHANGED <<pc, started, returned, served, bound, locals>>

(* ---------------- the cells --------------------------------------------- *)

GitCloneReturn ==
    \E c \in inflight :
        /\ Return("git_clone", c) /\ Advance
        /\ UNCHANGED <<served, bound, locals>>

SetEnv ==
    /\ Local("set_env")
    /\ env' = OpenAIKey
    /\ UNCHANGED <<defined, documents, test_df, query_engine, ragas_dataset,
                   ragas_df, client, project, locals>>

LoadDataReturn ==
    \E c \in inflight :
        /\ Return("load_data", c) /\ Advance
        /\ documents' = [i \in 1..NumFilesLimit |-> i]
        /\ defined' = defined \cup {"documents"}
        /\ UNCHANGED <<served, env, test_df, query_engine, ragas_dataset,
                       ragas_df, client, project, locals>>

WithOpenaiReturn ==
    \E c \in inflight :
        /\ Return("with_openai", c) /\ Advance
        /\ defined' = defined \cup {"generator"}
        /\ UNCHANGED <<served, env, documents, test_df, query_engine,
                       ragas_dataset, ragas_df, client, project, locals>>

(* generate_with_llamaindex_docs, then testset.to_pandas() in the next step *)
GenerateTestsetReturn ==
    \E c \in inflight, samples \in Testsets(MaxRows) :
        /\ Return("generate_testset", c) /\ Advance
        /\ test_df' = [columns |-> {}, rows |-> samples]
        /\ defined' = defined \cup {"testset"}
        /\ UNCHANGED <<served, env, documents, query_engine, ragas_dataset,
                       ragas_df, client, project, locals>>

TestToPandas ==
    /\ Local("test_to_pandas")
    /\ test_df' = TestsetToPandas(test_df.rows)
    /\ defined' = defined \cup {"test_df"}
    /\ UNCHANGED <<env, documents, query_engine, ragas_dataset, ragas_df,
                   client, project, locals>>

FromDocumentsReturn ==
    \E c \in inflight :
        /\ Return("from_documents", c) /\ Advance
        /\ query_engine' = build_query_engine(documents)
        /\ defined' = defined \cup {"query_engine"}
        /\ UNCHANGED <<served, env, documents, test_df, ragas_dataset,
                       ragas_df, client, project, locals>>

(* query_engine.query(question) comes back with an answer and source nodes  *)
Serve(c, a, nodes) ==
    served' = Append(served, [call |-> c.id, question |-> c.arg,
                               response |-> a, source_nodes |-> nodes])

DemoQueryReturn ==
    \E c \in inflight, a \in Answers,
       nodes \in Retrievals(query_engine.similarity_top_k) :
        /\ Return("demo_query", c) /\ Advance
        /\ Serve(c, a, nodes)
        /\ UNCHANGED <<bound, locals>>

(* variant: the last question of test_df is left out                        *)
GenEnterSkipsLast ==
    /\ Local("gen_enter")
    /\ test_questions' = SubSeq(Column(test_df, "question"), 1, Len(test_df.rows) - 1)
    /\ issued' = 0
    /\ responses' = <<>>
    /\ UNCHANGED bound

GenEnter ==
    /\ Local("gen_enter")
    /\ test_questions' = Column(test_df, "question")
    /\ issued' = 0
    /\ responses' = <<>>
    /\ UNCHANGED bound

BeginQuery ==
    /\ At("gen_loop")
    /\ ~Blocked(inflight)
    /\ issued < Len(test_questions)
    /\ issued' = issued + 1
    /\ inflight' = inflight \cup {Call("query", test_questions[issued + 1])}
    /\ started' = Append(started, Call("query", test_questions[issued + 1]))
    /\ UNCHANGED <<pc, status, returned, failedAt, served, bound,
                   test_questions, responses>>

QueryReturn ==
    \E c \in inflight, a \in Answers,
       nodes \in Retrievals(query_engine.similarity_top_k) :
        /\ Return("gen_loop", c)
        /\ Serve(c, a, nodes)
        /\ responses' = Append(responses,
              generate_single_response([response |-> a, source_nodes |-> nodes]))
        /\ UNCHANGED <<pc, status, bound, test_questions, issued>>

GenReturn ==
    /\ At("gen_loop")
    /\ ~Blocked(inflight)
    /\ issued = Len(test_questions)
    /\ Advance
    /\ ragas_dataset' = dataset_dict(test_questions, responses, test_df)
    /\ defined' = defined \cup {"ragas_dataset"}
    /\ UNCHANGED <<inflight, logs, env, documents, test_df, query_engine,
                   ragas_df, client, project, locals>>

ToPandasStep ==
    /\ Local("to_pandas")
    /\ ragas_df' = ToPandas(ragas_dataset)
    /\ defined' = defined \cup {"ragas_df"}
    /\ UNCHANGED <<env, documents, test_df, query_engine, ragas_dataset,
                   client, project, locals>>

OpenlayerClientReturn ==
    \E c \in inflight :
        /\ Return("OpenlayerClient", c) /\ Advance
        /\ client' = [api_key |-> OpenlayerKey]
        /\ defined' = defined \cup {"client"}
        /\ UNCHANGED <<served, env, documents, test_df, query_engine,
                       ragas_dataset, ragas_df, project, locals>>

CreateProjectReturn ==
    \E c \in inflight :
        /\ Return("create_project", c) /\ Advance
        /\ project' = [project EXCEPT !.created = TRUE]
        /\ defined' = defined \cup {"project"}
        /\ UNCHANGED <<served, env, documents, test_df, query_engine,
                       ragas_dataset, ragas_df, client, locals>>

AddDataframeReturn ==
    \E c \in inflight :
        /\ Return("add_dataframe", c) /\ Advance
        /\ project' = [project EXCEPT !.datasets =
              Append(@, [dataset_df |-> ragas_df,
                         dataset_config |-> ValidationDatasetConfig])]
        /\ UNCHANGED <<served, env, defined, documents, test_df, query_engine,
                       ragas_dataset, ragas_df, client, locals>>

AddModelReturn ==
    \E c \in inflight :
        /\ Return("add_model", c) /\ Advance
        /\ project' = [project EXCEPT !.models = Append(@, ModelConfig)]
        /\ UNCHANGED <<served, env, defined, documents, test_df, query_engine,
                       ragas_dataset, ragas_df, client, locals>>

CommitReturn ==
    \E c \in inflight :
        /\ Return("commit", c) /\ Advance
        /\ project' = [project EXCEPT !.commits = Append(@, "Initial commit!")]
        /\ UNCHANGED <<served, env, defined, documents, test_df, query_engine,
                       ragas_dataset, ragas_df, client, locals>>

PushReturn ==
    \E c \in inflight :
        /\ Return("push", c) /\ Advance
        /\ project' = [project EXCEPT !.pushes = @ + 1]
        /\ UNCHANGED <<served, env, defined, documents, test_df, query_engine,
                       ragas_dataset, ragas_df, client, locals>>

Next ==
    \/ BeginCall
    \/ Fail
    \/ GitCloneReturn
    \/ SetEnv
    \/ LoadDataReturn
    \/ WithOpenaiReturn
    \/ GenerateTestsetReturn
    \/ TestToPandas
    \/ FromDocumentsReturn
    \/ DemoQueryReturn
    \/ GenEnter
    \/ BeginQuery
    \/ QueryReturn
    \/ GenReturn
    \/ ToPandasStep
    \/ OpenlayerClientReturn
    \/ CreateProjectReturn
    \/ AddDataframeReturn
    \/ AddModelReturn
    \/ CommitReturn
    \/ PushReturn

Spec == Init /\ [][Next]_vars

(* every call eventually returns or raises, and the interpreter keeps going *)
LiveSpec == Spec /\ WF_vars(Next)

(* ---------------- vocabulary of the properties -------------------------- *)

StepIndex(s) == CHOOSE i \in 1..Len(Script) : Script[i] = s

Passed(s) == pc > StepIndex(s)

Range(log) == {log[i] : i \in 1..Len(log)}

Count(log, name) == Cardinality({i \in 1..Len(log) : log[i].name = name})

IsQuery(c) == c.name = "query"

QueryCalls == SelectSeq(started, IsQuery)

(* the i-th query of generate_ragas_dataset; the demonstration query is the *)
(* first query of the run                                                   *)
LoopCall(i) == QueryCalls[i + 1]

ServedFor(c) == {served[j] : j \in {k \in 1..Len(served) : served[k].call = c.id}}

Contents(nodes) == [j \in 1..Len(nodes) |-> GetContent(nodes[j])]

OpenAICalls == {"with_openai", "generate_testset", "from_documents", "query"}

OpenlayerCalls == {"create_project", "add_dataframe", "add_model", "commit", "push"}

DatasetReturned == "ragas_dataset" \in defined

Failed == failedAt # <<>>

FailedIn(name) == Failed /\ Len(failedAt) = 1 /\ failedAt[1].name = name

(* C1: the stages run in the order load documents, build query engine,      *)
(* generate answers, package, upload: build_query_engine starts only after  *)
(* load_data and the testset generation returned, generate_ragas_dataset    *)
(* only after build_query_engine returned an engine, add_dataframe only     *)
(* after generate_ragas_dataset returned, and the frame given to            *)
(* add_dataframe has the rows of the returned dataset, in the same order.   *)
C1_StageOrder ==
    /\ "from_documents" \in Names(started) =>
          /\ {"load_data", "generate_testset"} \subseteq Names(returned)
          /\ {"documents", "test_df"} \subseteq defined
    /\ Passed("gen_enter") =>
          /\ "from_documents" \in Names(returned)
          /\ "query_engine" \in defined
    /\ "add_dataframe" \in Names(started) => DatasetReturned
    /\ \A d \in Range(project.datasets) :
          /\ DatasetReturned
          /\ d.dataset_df.columns = DOMAIN ragas_dataset
          /\ \A col \in DOMAIN ragas_dataset :
                /\ Len(d.dataset_df.rows) = Len(ragas_dataset[col])
                /\ \A i \in 1..Len(d.dataset_df.rows) :
                      d.dataset_df.rows[i][col] = ragas_dataset[col][i]

C1_Witness ==
    /\ Len(project.datasets) = 1
    /\ Len(project.datasets[1].dataset_df.rows) >= 2
    /\ project.datasets[1].dataset_df.rows[1] # project.datasets[1].dataset_df.rows[2]

(* C2: when all queries succeed generate_ragas_dataset returns exactly the  *)
(* columns question, answer, contexts, ground_truth, each as long as        *)
(* test_df, and row i holds question i and ground truth i of test_df and    *)
(* the answer and contexts served for the query issued for question i.      *)
C2_RowsAligned ==
    DatasetReturned =>
        /\ DOMAIN ragas_dataset = {"question", "answer", "contexts", "ground_truth"}
        /\ \A col \in DOMAIN ragas_dataset :
              Len(ragas_dataset[col]) = Len(test_df.rows)
        /\ \A i \in 1..Len(test_df.rows) :
              /\ ragas_dataset.question[i] = test_df.rows[i].question
              /\ ragas_dataset.ground_truth[i] = test_df.rows[i].ground_truth
              /\ LoopCall(i).arg = test_df.rows[i].question
              /\ Cardinality(ServedFor(LoopCall(i))) = 1
              /\ \A r \in ServedFor(LoopCall(i)) :
                    /\ ragas_dataset.answer[i] = r.response
                    /\ ragas_dataset.contexts[i] = Contents(r.source_nodes)

C2_Witness ==
    /\ DatasetReturned
    /\ Len(test_df.rows) >= 2
    /\ ragas_dataset.question[1] # ragas_dataset.question[2]
    /\ ragas_dataset.answer[1] # ragas_dataset.answer[2]
    /\ ragas_dataset.contexts[1] # ragas_dataset.contexts[2]
    /\ ragas_dataset.ground_truth[1] # ragas_dataset.ground_truth[2]

(* C3: a failing external call stops the run at that step: the failed call  *)
(* is the last call ever started (no retry, no later step), it never        *)
(* returns, the statement it belongs to stays the current one, nothing runs *)
(* afterwards, and push is not reached after the failure of an earlier step.*)
C3_StopsAtFailure ==
    Failed =>
        /\ status = "failed"
        /\ Len(failedAt) = 1
        /\ inflight = {}
        /\ started[Len(started)] = failedAt[1]
        /\ Cardinality({i \in 1..Len(started) : started[i].id = failedAt[1].id}) = 1
        /\ failedAt[1] \notin Range(returned)
        /\ pc <= Len(Script)
        /\ CallName(Script[pc]) = failedAt[1].name
              \/ (Script[pc] = "gen_loop" /\ failedAt[1].name = "query")
        /\ failedAt[1].name # "push" => "push" \notin Names(started)
        /\ project.pushes = 0

C3_NoErrorHandling == []C3_StopsAtFailure /\ [][Failed => UNCHANGED vars]_vars

C3_Witness == FailedIn("add_model") /\ Len(project.datasets) = 1

(* C4: at most one external call is in flight, every call but the newest    *)
(* has returned, and the queries of generate_ragas_dataset are issued in    *)
(* the order of the question column of test_df.                             *)
C4_Sequential ==
    /\ Cardinality(inflight) <= 1
    /\ \A j \in 1..(Len(started) - 1) : started[j] \in Range(returned)
    /\ Passed("gen_enter") =>
          /\ Len(QueryCalls) = issued + 1
          /\ \A i \in 1..issued : LoopCall(i).arg = Column(test_df, "question")[i]

C4_Witness ==
    /\ issued = 2
    /\ \E c \in inflight : c.name = "query" /\ c = LoopCall(2)
    /\ LoopCall(1).arg # LoopCall(2).arg

C6_UploadOrder ==
    /\ \A n \in {"add_dataframe", "add_model"} :
          n \in Names(started) =>
              /\ "create_project" \in Names(returned)
              /\ "project" \in defined
              /\ project.created
    /\ "commit" \in Names(started) =>
          /\ {"add_dataframe", "add_model"} \subseteq Names(returned)
          /\ Len(project.datasets) = 1
          /\ Len(project.models) = 1
    /\ "push" \in Names(started) =>
          /\ "commit" \in Names(returned)
          /\ Len(project.commits) = 1
    /\ \A n \in OpenlayerCalls : Count(started, n) <= 1

C6_Witness == project.pushes = 1 /\ status = "done"

(* C7: when the query for question k fails, generate_ragas_dataset returns  *)
(* no dataset, not even a partial one, no later question is queried, and    *)
(* test_df is what it was when the function was entered.                    *)
C7_NoPartialDataset ==
    (FailedIn("query") /\ Passed("gen_enter")) =>
        /\ ~DatasetReturned
        /\ \A col \in DOMAIN ragas_dataset : ragas_dataset[col] = <<>>
        /\ ragas_df = EmptyFrame
        /\ project.datasets = <<>>
        /\ Len(QueryCalls) = issued + 1
        /\ failedAt[1] = LoopCall(issued)
        /\ Len(responses) = issued - 1

C7_AllOrNothing ==
    []C7_NoPartialDataset /\ [][Passed("test_to_pandas") => test_df' = test_df]_vars

C7_Witness ==
    /\ FailedIn("query")
    /\ issued = 2
    /\ Len(responses) = 1
    /\ Len(test_df.rows) > 2 \/ Len(test_df.rows) = MaxRows

(* C8: every column the validation dataset config names is a column of the  *)
(* dataset generate_ragas_dataset produced and of the frame uploaded with   *)
(* it, the four roles name four different columns, and the model config     *)
(* has the input variable names of the dataset config.                      *)
ConfigColumns(cfg) ==
    {cfg.contextColumnName, cfg.questionColumnName, cfg.outputColumnName,
     cfg.groundTruthColumnName} \cup Range(cfg.inputVariableNames)

C8_ConfigMatchesColumns ==
    /\ \A d \in Range(project.datasets) :
          /\ ConfigColumns(d.dataset_config) \subseteq d.dataset_df.columns
          /\ ConfigColumns(d.dataset_config) \subseteq DOMAIN ragas_dataset
          /\ Cardinality({d.dataset_config.contextColumnName,
                          d.dataset_config.questionColumnName,
                          d.dataset_config.outputColumnName,
                          d.dataset_config.groundTruthColumnName}) = 4
          /\ \A m \in Range(project.models) :
                m.inputVariableNames = d.dataset_config.inputVariableNames

C8_Witness ==
    /\ Len(project.datasets) = 1
    /\ Len(project.models) = 1
    /\ Len(project.datasets[1].dataset_df.rows) >= 1

(* C9: the uploaded model metadata has the top_k and the chunk_size the     *)
(* query engine was built with, and every uploaded row has at most top_k    *)
(* contexts.                                                                *)
C9_MetadataMatchesEngine ==
    \A m \in Range(project.models) :
        /\ m.metadata.top_k = query_engine.similarity_top_k
        /\ m.metadata.top_k = 2
        /\ m.metadata.chunk_size = query_engine.chunk_size
        /\ m.metadata.chunk_size = 512
        /\ \A d \in Range(project.datasets) :
              \A i \in 1..Len(d.dataset_df.rows) :
                  Len(d.dataset_df.rows[i].contexts) <= m.metadata.top_k

C9_Witness ==
    /\ Len(project.models) = 1
    /\ Len(project.datasets) = 1
    /\ \E i \in 1..Len(project.datasets[1].dataset_df.rows) :
          Len(project.datasets[1].dataset_df.rows[i].contexts) = 2

(* C10: the run ends; generate_ragas_dataset never issues more queries than *)
(* test_df has rows, and a run that completes has issued one query per row, *)
(* each once, after the single demonstration query, n + 1 in all, and has   *)
(* reached push.                                                            *)
C10_QueryCount ==
    /\ Len(QueryCalls) <= Len(test_df.rows) + 1 \/ ~Passed("test_to_pandas")
    /\ status = "done" =>
          /\ Len(QueryCalls) = Len(test_df.rows) + 1
          /\ Len(served) = Len(test_df.rows) + 1
          /\ QueryCalls[1].arg = DemoQuestion
          /\ Count(returned, "query") = Len(test_df.rows) + 1
          /\ Count(returned, "push") = 1

C10_Terminates == []C10_QueryCount /\ <>(status \in {"done", "failed"})

C10_Witness ==
    /\ status = "done"
    /\ Len(test_df.rows) >= 2
    /\ Len(QueryCalls) = Len(test_df.rows) + 1

====
